---- MODULE Spec2Model ----
\* A model of packages/utils/src/prune.ts: pruneSchema and its helpers
\* (createPruningContext, visitTypes, visitOutputType, visitInputType,
\* getImplementations), run on a family of small type graphs under every
\* combination of the pruning options.
EXTENDS Integers, FiniteSets, Sequences, TLC

VARIABLES schema, options, pc, pruningContext, typesToPrune, passes, call, input, returned

vars == <<schema, options, pc, pruningContext, typesToPrune, passes, call, input, returned>>

-----------------------------------------------------------------------------
\* Bounds of the model.

\* An input graph holds at most MaxRefs of the candidate references below.
MaxRefs == 4

\* The caller invokes pruneSchema MaxCalls times, each time on the graph the
\* previous invocation returned.
MaxCalls == 2

-----------------------------------------------------------------------------
\* The type graph (GraphQLSchema as prune.ts reads it).

TypeNames == {"Query", "A", "B", "I", "U", "In", "S", "E", "__Type"}

\* The category of a named type; a type keeps its category for its lifetime.
Kind(name) ==
    CASE name \in {"Query", "A", "B", "__Type"} -> "Object"
      [] name = "I"  -> "Interface"
      [] name = "U"  -> "Union"
      [] name = "In" -> "InputObject"
      [] name = "E"  -> "Enum"
      [] OTHER       -> "Scalar"

isObjectType(name) == Kind(name) = "Object"
isInterfaceType(name) == Kind(name) = "Interface"
isUnionType(name) == Kind(name) = "Union"
isInputObjectType(name) == Kind(name) = "InputObject"

\* type.name.startsWith('__')
startsWithReserved(name) == name \in {"__Type"}

\* 'getInterfaces' in type: object and interface types carry an interface list.
hasGetInterfaces(name) == isObjectType(name) \/ isInterfaceType(name)

Ref(kind, owner, name, type, args) ==
    [kind |-> kind, owner |-> owner, name |-> name, type |-> type, args |-> args]

\* The references an input graph may or may not hold.
CandidateRefs ==
    { Ref("field", "Query", "a", "A", {}),
      Ref("field", "Query", "i", "I", {}),
      Ref("field", "Query", "u", "U", {}),
      Ref("field", "Query", "s", "S", {"In"}),
      Ref("field", "A", "b", "B", {}),
      Ref("field", "B", "a", "A", {}),
      Ref("field", "B", "s", "S", {}),
      Ref("field", "I", "f", "S", {}),
      Ref("field", "In", "e", "E", {}),
      Ref("implements", "A", "", "I", {}),
      Ref("implements", "B", "", "I", {}),
      Ref("member", "U", "", "B", {}),
      Ref("directive", "", "d", "", {"In"}) }

\* References every input graph holds: the introspection type refers to itself.
FixedRefs == { Ref("field", "__Type", "ofType", "__Type", {}) }

Field(r) == [name |-> r.name, type |-> r.type, args |-> r.args]

\* The graph over all of TypeNames that holds the references refs; Query is the
\* only root type.
BuildSchema(refs) ==
    [ types      |-> TypeNames,
      fields     |-> [n \in TypeNames |->
                        {Field(r) : r \in {x \in refs : x.kind = "field" /\ x.owner = n}}],
      interfaces |-> [n \in TypeNames |->
                        {r.type : r \in {x \in refs : x.kind = "implements" /\ x.owner = n}}],
      members    |-> [n \in TypeNames |->
                        {r.type : r \in {x \in refs : x.kind = "member" /\ x.owner = n}}],
      roots      |-> {"Query"},
      directives |-> {[name |-> r.name, args |-> r.args] :
                        r \in {x \in refs : x.kind = "directive"}} ]

InputSchemas ==
    { BuildSchema(refs \cup FixedRefs) :
        refs \in {r \in SUBSET CandidateRefs : Cardinality(r) <= MaxRefs} }

\* options.skipPruning, as the set of type names for which it returns true
\* (the empty set: absent, or a predicate that is always false).
SkipPruningChoices == { {}, {"B", "I", "U"} }

PruneSchemaOptions ==
    [ skipPruning                         : SkipPruningChoices,
      skipEmptyCompositeTypePruning       : BOOLEAN,
      skipEmptyUnionPruning               : BOOLEAN,
      skipUnimplementedInterfacesPruning  : BOOLEAN,
      skipUnusedTypesPruning              : BOOLEAN ]

\* A JavaScript object without keys (Object.create(null)).
EmptyRecord == [k \in {} |-> FALSE]

\* obj[key] = value on a JavaScript object.
Put(obj, key, value) == [k \in DOMAIN obj \cup {key} |-> IF k = key THEN value ELSE obj[k]]

-----------------------------------------------------------------------------
\* getImplementations: the entry of an interface in the index. "May return
\* undefined": present is FALSE when the index has no key for the name.
getImplementations(ctx, name) ==
    IF name \in DOMAIN ctx.implementations
    THEN [present |-> TRUE, names |-> ctx.implementations[name]]
    ELSE [present |-> FALSE, names |-> {}]

-----------------------------------------------------------------------------
\* createPruningContext

\* RecordImplementation without the test for an existing entry: the entry is
\* created anew for every implementer.
RecordImplementation_overwrite(ctx, iface, name) ==
    LET created == [ctx EXCEPT !.implementations = Put(@, iface, {})]
    IN [created EXCEPT !.implementations =
            Put(@, iface, created.implementations[iface] \cup {name})]

\* The body of the inner loop: one interface iface that type name declares.
RecordImplementation(ctx, iface, name) ==
    LET implementations == getImplementations(ctx, iface)
        created == IF ~implementations.present
                   THEN [ctx EXCEPT !.implementations = Put(@, iface, {})]
                   ELSE ctx
    IN [created EXCEPT !.implementations =
            Put(@, iface, created.implementations[iface] \cup {name})]

RECURSIVE RecordInterfaces(_, _, _)
\* for (const iface of type.getInterfaces()) ...
RecordInterfaces(ctx, ifaces, name) ==
    IF ifaces = {} THEN ctx
    ELSE LET iface == CHOOSE i \in ifaces : TRUE
         IN RecordInterfaces(RecordImplementation(ctx, iface, name), ifaces \ {iface}, name)

RECURSIVE ScanTypes(_, _)
\* for (const typeName in schema.getTypeMap()) ...
ScanTypes(ctx, names) ==
    IF names = {} THEN ctx
    ELSE LET name == CHOOSE n \in names : TRUE
             next == IF hasGetInterfaces(name)
                     THEN RecordInterfaces(ctx, ctx.schema.interfaces[name], name)
                     ELSE ctx
         IN ScanTypes(next, names \ {name})

createPruningContext(s) ==
    ScanTypes([schema |-> s, unusedTypes |-> EmptyRecord, implementations |-> EmptyRecord],
              s.types)

-----------------------------------------------------------------------------
\* visitOutputType, visitInputType: the marking traversal. Each returns the
\* visited set and the pruning context as the call leaves them.

Visit(visitedTypes, ctx) == [visitedTypes |-> visitedTypes, pruningContext |-> ctx]

\* visitedTypes[type.name] = true; pruningContext.unusedTypes[type.name] = false
Mark(visitedTypes, ctx, name) ==
    Visit(visitedTypes \cup {name}, [ctx EXCEPT !.unusedTypes = Put(@, name, FALSE)])

RECURSIVE visitInputType(_, _, _)
RECURSIVE visitInputTypes(_, _, _)
RECURSIVE visitOutputType(_, _, _)
RECURSIVE visitOutputTypes(_, _, _)
RECURSIVE visitFields(_, _, _)

\* for (const fieldName in fields) visitInputType(..., getNamedType(field.type))
RECURSIVE visitInputFields(_, _, _)
visitInputFields(visitedTypes, ctx, fields) ==
    IF fields = {} THEN Visit(visitedTypes, ctx)
    ELSE LET field == CHOOSE f \in fields : TRUE
             v == visitInputType(visitedTypes, ctx, field.type)
         IN visitInputFields(v.visitedTypes, v.pruningContext, fields \ {field})

visitInputType(visitedTypes, ctx, name) ==
    IF name \in visitedTypes THEN Visit(visitedTypes, ctx)
    ELSE LET m == Mark(visitedTypes, ctx, name)
         IN IF isInputObjectType(name)
            THEN visitInputFields(m.visitedTypes, m.pruningContext, ctx.schema.fields[name])
            ELSE m

\* for (const arg of ...args) visitInputType(..., getNamedType(arg.type))
visitInputTypes(visitedTypes, ctx, names) ==
    IF names = {} THEN Visit(visitedTypes, ctx)
    ELSE LET name == CHOOSE n \in names : TRUE
             v == visitInputType(visitedTypes, ctx, name)
         IN visitInputTypes(v.visitedTypes, v.pruningContext, names \ {name})

\* visitField without the loop over the field's arguments.
visitField_noArgs(visitedTypes, ctx, field) ==
    visitOutputType(visitedTypes, ctx, field.type)

\* The body of the field loop of visitOutputType: the field's type, then the
\* type of each of its arguments.
visitField(visitedTypes, ctx, field) ==
    LET v == visitOutputType(visitedTypes, ctx, field.type)
    IN visitInputTypes(v.visitedTypes, v.pruningContext, field.args)

visitFields(visitedTypes, ctx, fields) ==
    IF fields = {} THEN Visit(visitedTypes, ctx)
    ELSE LET field == CHOOSE f \in fields : TRUE
             v == visitField(visitedTypes, ctx, field)
         IN visitFields(v.visitedTypes, v.pruningContext, fields \ {field})

\* A loop that calls visitOutputType on each of names.
visitOutputTypes(visitedTypes, ctx, names) ==
    IF names = {} THEN Visit(visitedTypes, ctx)
    ELSE LET name == CHOOSE n \in names : TRUE
             v == visitOutputType(visitedTypes, ctx, name)
         IN visitOutputTypes(v.visitedTypes, v.pruningContext, names \ {name})

\* if (isInterfaceType(type)) { ... visit every implementation in the index }
visitImplementations(visitedTypes, ctx, name) ==
    LET implementations == getImplementations(ctx, name)
    IN IF isInterfaceType(name) /\ implementations.present
       THEN visitOutputTypes(visitedTypes, ctx, implementations.names)
       ELSE Visit(visitedTypes, ctx)

\* if ('getInterfaces' in type) { ... visit every interface the type declares }
visitInterfaces(visitedTypes, ctx, name) ==
    IF hasGetInterfaces(name)
    THEN visitOutputTypes(visitedTypes, ctx, ctx.schema.interfaces[name])
    ELSE Visit(visitedTypes, ctx)

visitOutputType(visitedTypes, ctx, name) ==
    IF name \in visitedTypes THEN Visit(visitedTypes, ctx)
    ELSE LET m == Mark(visitedTypes, ctx, name)
         IN IF isObjectType(name) \/ isInterfaceType(name)
            THEN LET f == visitFields(m.visitedTypes, m.pruningContext, ctx.schema.fields[name])
                     i == visitImplementations(f.visitedTypes, f.pruningContext, name)
                 IN visitInterfaces(i.visitedTypes, i.pruningContext, name)
            ELSE IF isUnionType(name)
            THEN visitOutputTypes(m.visitedTypes, m.pruningContext, ctx.schema.members[name])
            ELSE m

-----------------------------------------------------------------------------
\* visitTypes

\* for (const typeName in schema.getTypeMap())
\*   if (!typeName.startsWith('__')) pruningContext.unusedTypes[typeName] = true
InitUnusedTypes(ctx) ==
    [ctx EXCEPT !.unusedTypes =
        [n \in DOMAIN ctx.unusedTypes \cup {t \in ctx.schema.types : ~startsWithReserved(t)} |->
            IF ~startsWithReserved(n) /\ n \in ctx.schema.types THEN TRUE ELSE ctx.unusedTypes[n]]]

\* The argument types of every directive, in the order the loops meet them.
DirectiveArgTypes(s) == UNION {d.args : d \in s.directives}

\* getRootTypes(schema)
getRootTypes(s) == s.roots

visitTypes(ctx) ==
    LET c0 == InitUnusedTypes(ctx)
        r  == visitOutputTypes({}, c0, getRootTypes(c0.schema))
        d  == visitInputTypes(r.visitedTypes, r.pruningContext, DirectiveArgTypes(c0.schema))
    IN d.pruningContext

-----------------------------------------------------------------------------
\* pruneSchema: the selection loop.

\* pruningContext.unusedTypes[type.name], read as a condition.
isUnused(ctx, name) == name \in DOMAIN ctx.unusedTypes /\ ctx.unusedTypes[name]

\* pruneObjectType without the rule for a type with no fields.
pruneObjectType_unusedOnly(ctx, opts, name) ==
    isUnused(ctx, name) /\ ~opts.skipUnusedTypesPruning

\* if (isObjectType(type) || isInputObjectType(type)) { ... }
pruneObjectType(ctx, opts, name) ==
    \/ (ctx.schema.fields[name] = {} /\ ~opts.skipEmptyCompositeTypePruning)
    \/ (isUnused(ctx, name) /\ ~opts.skipUnusedTypesPruning)

\* pruneUnionType reading the flag of the composite types for an empty union.
pruneUnionType_compositeFlag(ctx, opts, name) ==
    \/ (ctx.schema.members[name] = {} /\ ~opts.skipEmptyCompositeTypePruning)
    \/ (isUnused(ctx, name) /\ ~opts.skipUnusedTypesPruning)

\* else if (isUnionType(type)) { ... }
pruneUnionType(ctx, opts, name) ==
    \/ (ctx.schema.members[name] = {} /\ ~opts.skipEmptyUnionPruning)
    \/ (isUnused(ctx, name) /\ ~opts.skipUnusedTypesPruning)

\* else if (isInterfaceType(type)) { ... }
pruneInterfaceType(ctx, opts, name) ==
    LET implementations == getImplementations(ctx, name)
    IN \/ (ctx.schema.fields[name] = {} /\ ~opts.skipEmptyCompositeTypePruning)
       \/ (implementations.present /\ implementations.names = {}
             /\ ~opts.skipUnimplementedInterfacesPruning)
       \/ (isUnused(ctx, name) /\ ~opts.skipUnusedTypesPruning)

\* The selection loop without its last branch: scalars and enums are kept.
pruneOtherType_never(ctx, opts, name) == FALSE

\* else { ... }: scalar and enum types
pruneOtherType(ctx, opts, name) ==
    isUnused(ctx, name) /\ ~opts.skipUnusedTypesPruning

\* The selection loop without the call of options.skipPruning.
skipPruning_ignored(opts, name) == FALSE

\* options.skipPruning && options.skipPruning(type)
skipPruning(opts, name) == name \in opts.skipPruning

\* The body of the loop over the type map: TRUE when it adds the type's name
\* to typesToPrune.
selectType(ctx, opts, name) ==
    IF startsWithReserved(name) THEN FALSE
    ELSE IF skipPruning(opts, name) THEN FALSE
    ELSE IF isObjectType(name) \/ isInputObjectType(name) THEN pruneObjectType(ctx, opts, name)
    ELSE IF isUnionType(name) THEN pruneUnionType(ctx, opts, name)
    ELSE IF isInterfaceType(name) THEN pruneInterfaceType(ctx, opts, name)
    ELSE pruneOtherType(ctx, opts, name)

selectTypes(ctx, opts) == {name \in ctx.schema.types : selectType(ctx, opts, name)}

\* The MapperKind.TYPE callback handed to mapSchema: null removes the type.
typeMapper(toPrune, name) == IF name \in toPrune THEN "null" ELSE "undefined"

\* pruneSchema returning after its first pass ...
recurse_never(toPrune) == FALSE

\* ... and pruneSchema recursing whatever the pass selected.
recurse_always(toPrune) == TRUE

\* typesToPrune.size ? pruneSchema(prunedSchema, options) : prunedSchema
recurse(toPrune) == toPrune # {}

-----------------------------------------------------------------------------
\* mapSchema (./mapSchema): a new graph without the types the mapper answers
\* null for, and without the references to them.

\* mapSchema rebuilding from the full list of type names: a type an earlier
\* pass removed comes back, without fields.
mapSchema_fromAllNames(s, toPrune) ==
    LET gone == {n \in s.types : typeMapper(toPrune, n) = "null"}
        kept == TypeNames \ gone
    IN [ types      |-> kept,
         fields     |-> [n \in kept |->
                           IF n \notin s.types THEN {}
                           ELSE {[f EXCEPT !.args = @ \ gone] :
                                   f \in {x \in s.fields[n] : x.type \notin gone}}],
         interfaces |-> [n \in kept |-> IF n \notin s.types THEN {} ELSE s.interfaces[n] \ gone],
         members    |-> [n \in kept |-> IF n \notin s.types THEN {} ELSE s.members[n] \ gone],
         roots      |-> s.roots \ gone,
         directives |-> {[d EXCEPT !.args = @ \ gone] : d \in s.directives} ]

mapSchema(s, toPrune) ==
    LET gone == {n \in s.types : typeMapper(toPrune, n) = "null"}
        kept == s.types \ gone
    IN [ types      |-> kept,
         fields     |-> [n \in kept |->
                           {[f EXCEPT !.args = @ \ gone] :
                              f \in {x \in s.fields[n] : x.type \notin gone}}],
         interfaces |-> [n \in kept |-> s.interfaces[n] \ gone],
         members    |-> [n \in kept |-> s.members[n] \ gone],
         roots      |-> s.roots \ gone,
         directives |-> {[d EXCEPT !.args = @ \ gone] : d \in s.directives} ]

-----------------------------------------------------------------------------
\* The state machine: the caller's invocations of pruneSchema, each a chain of
\* recursive passes; a pass is createPruningContext, visitTypes, the selection
\* loop, then mapSchema and the decision to recurse.

NoContext == [schema |-> {}, unusedTypes |-> EmptyRecord, implementations |-> EmptyRecord]

Init ==
    /\ schema \in InputSchemas
    /\ options \in PruneSchemaOptions
    /\ pc = "context"
    /\ pruningContext = NoContext
    /\ typesToPrune = {}
    /\ passes = <<>>
    /\ call = 1
    /\ input = schema
    /\ returned = <<>>

CreateContext ==
    /\ pc = "context"
    /\ pruningContext' = createPruningContext(schema)
    /\ pc' = "visit"
    /\ UNCHANGED <<schema, options, typesToPrune, passes, call, input, returned>>

VisitTypes ==
    /\ pc = "visit"
    /\ pruningContext' = visitTypes(pruningContext)
    /\ pc' = "select"
    /\ UNCHANGED <<schema, options, typesToPrune, passes, call, input, returned>>

SelectTypes ==
    /\ pc = "select"
    /\ typesToPrune' = selectTypes(pruningContext, options)
    /\ pc' = "map"
    /\ UNCHANGED <<schema, options, pruningContext, passes, call, input, returned>>

\* mapSchema, then the recursive call on its result ...
Recurse ==
    /\ pc = "map"
    /\ recurse(typesToPrune)
    /\ schema' = mapSchema(schema, typesToPrune)
    /\ passes' = Append(passes, [schema |-> schema, typesToPrune |-> typesToPrune])
    /\ pruningContext' = NoContext
    /\ typesToPrune' = {}
    /\ pc' = "context"
    /\ UNCHANGED <<options, call, input, returned>>

\* ... or the return of its result.
Return ==
    /\ pc = "map"
    /\ ~recurse(typesToPrune)
    /\ schema' = mapSchema(schema, typesToPrune)
    /\ passes' = Append(passes, [schema |-> schema, typesToPrune |-> typesToPrune])
    /\ returned' = Append(returned, schema')
    /\ pc' = "done"
    /\ UNCHANGED <<options, pruningContext, typesToPrune, call, input>>

\* The caller prunes the graph it got back, with the same options.
CallAgain ==
    /\ pc = "done"
    /\ call < MaxCalls
    /\ call' = call + 1
    /\ passes' = <<>>
    /\ pruningContext' = NoContext
    /\ typesToPrune' = {}
    /\ pc' = "context"
    /\ UNCHANGED <<schema, options, input, returned>>

Next == CreateContext \/ VisitTypes \/ SelectTypes \/ Recurse \/ Return \/ CallAgain

Spec == Init /\ [][Next]_vars

-----------------------------------------------------------------------------
\* Vocabulary of the properties, stated on the graph itself and not on the
\* traversal's data.

\* The types that declare the interface name.
Implementers(s, name) == {t \in s.types : hasGetInterfaces(t) /\ name \in s.interfaces[t]}

\* One step of the traversal rules: the types a visited type leads to.
Successors(s, name) ==
    CASE isObjectType(name) \/ isInterfaceType(name) ->
            {f.type : f \in s.fields[name]} \cup UNION {f.args : f \in s.fields[name]}
              \cup s.interfaces[name]
              \cup (IF isInterfaceType(name) THEN Implementers(s, name) ELSE {})
      [] isUnionType(name) -> s.members[name]
      [] isInputObjectType(name) -> {f.type : f \in s.fields[name]}
      [] OTHER -> {}

RECURSIVE Closure(_, _)
Closure(s, names) ==
    LET more == names \cup UNION {Successors(s, n) : n \in names}
    IN IF more = names THEN names ELSE Closure(s, more)

\* The types reachable from the root types and the directive argument types.
Reachable(s) == Closure(s, s.roots \cup UNION {d.args : d \in s.directives})

Flags == {"skipEmptyCompositeTypePruning", "skipEmptyUnionPruning",
          "skipUnimplementedInterfacesPruning", "skipUnusedTypesPruning"}

\* The condition of the rules a flag governs, whatever the flag's setting.
RuleCondition(flag, ctx, name) ==
    CASE flag = "skipEmptyCompositeTypePruning" ->
            Kind(name) \in {"Object", "InputObject", "Interface"} /\ ctx.schema.fields[name] = {}
      [] flag = "skipEmptyUnionPruning" ->
            isUnionType(name) /\ ctx.schema.members[name] = {}
      [] flag = "skipUnimplementedInterfacesPruning" ->
            isInterfaceType(name) /\ name \in DOMAIN ctx.implementations
                /\ ctx.implementations[name] = {}
      [] OTHER ->
            name \in DOMAIN ctx.unusedTypes /\ ctx.unusedTypes[name]

RuleFires(flag, ctx, opts, name) == ~opts[flag] /\ RuleCondition(flag, ctx, name)

DefaultOptions ==
    [ skipPruning                         |-> {},
      skipEmptyCompositeTypePruning       |-> FALSE,
      skipEmptyUnionPruning               |-> FALSE,
      skipUnimplementedInterfacesPruning  |-> FALSE,
      skipUnusedTypesPruning              |-> FALSE ]

\* The graph pass i of the current invocation produced.
Rebuilt(i) == IF i < Len(passes) THEN passes[i + 1].schema ELSE schema

FirstPass == call = 1 /\ passes = <<>>

-----------------------------------------------------------------------------
\* C1 as stated: in every pass and under every configuration, no type
\* reachable from a root type or a directive argument type is in typesToPrune.
C1_ReachableNeverSelected ==
    pc = "map" => Reachable(schema) \cap typesToPrune = {}

\* C1, amended: a reachable type is never selected by the unused-type rule; a
\* reachable type in typesToPrune is one a structural rule selects (no fields,
\* no union members, or an index entry that is present and empty, with the
\* rule's flag not set).
C1_ReachableSelectedOnlyWhenEmpty ==
    pc = "map" =>
        \A t \in Reachable(schema) \cap typesToPrune :
            \E flag \in Flags \ {"skipUnusedTypesPruning"} :
                RuleFires(flag, pruningContext, options, t)

\* A pass that removes unused types and keeps a reachable type that has an
\* argument-position type reachable behind it.
C1_Witness ==
    /\ pc = "map"
    /\ ~options.skipUnusedTypesPruning
    /\ \E t \in Reachable(schema) \ schema.roots :
          /\ t \notin typesToPrune
          /\ isInputObjectType(t)
          /\ schema.fields[t] # {}
    /\ \E u \in typesToPrune : u \notin Reachable(schema)

\* C2: pruning the graph pruneSchema returned, with the same options, returns
\* a graph with the same type names, and its pass selects nothing.
C2_Idempotent ==
    /\ \A i \in 1..Len(returned) : returned[i].types = returned[1].types
    /\ (call >= 2 /\ pc = "map") => typesToPrune = {}

C2_Witness ==
    /\ call = 2
    /\ pc = "done"
    /\ Len(returned) = 2
    /\ returned[1].types # input.types
    /\ returned[1].types \ {"__Type"} # {}

\* C3: every pass that selects something yields a graph with strictly fewer
\* types, every pass but the last selects something, so an invocation recurses
\* at most as many times as its graph has types.
C3_Terminates ==
    /\ \A i \in 1..Len(passes) :
          /\ passes[i].typesToPrune # {} =>
                Cardinality(Rebuilt(i).types) < Cardinality(passes[i].schema.types)
          /\ (i < Len(passes) \/ pc # "done") => passes[i].typesToPrune # {}
    /\ Len(passes) >= 1 => Len(passes) - 1 <= Cardinality(passes[1].schema.types)

C3_Witness ==
    /\ pc = "done"
    /\ Len(passes) >= 4

\* C4: the graph a pass rebuilds has a subset of the type names of the graph
\* the pass started from, and what pruneSchema returns a subset of its input's.
C4_Shrinks ==
    /\ \A i \in 1..Len(passes) : Rebuilt(i).types \subseteq passes[i].schema.types
    /\ schema.types \subseteq input.types
    /\ \A i \in 1..Len(returned) : returned[i].types \subseteq input.types

C4_Witness ==
    /\ pc = "done"
    /\ call = 1
    /\ Len(passes) >= 3
    /\ schema.types # passes[2].schema.types
    /\ passes[2].schema.types # input.types

\* C5 as stated: an interface no type implements, with a field and not removed
\* as unused, is absent from the graph pruneSchema returns unless
\* skipUnimplementedInterfacesPruning is set, and then it is present.
C5_UnimplementedInterfaceRemoved ==
    (pc = "done" /\ call = 1) =>
        \A t \in input.types :
            ( /\ isInterfaceType(t)
              /\ Implementers(input, t) = {}
              /\ input.fields[t] # {}
              /\ (t \in Reachable(input) \/ options.skipUnusedTypesPruning)
              /\ t \notin options.skipPruning )
            => IF options.skipUnimplementedInterfacesPruning
               THEN t \in schema.types
               ELSE t \notin schema.types

\* C6: a type options.skipPruning answers true for is never in typesToPrune,
\* and stays in the graph.
C6_SkipPruningExempts ==
    /\ pc = "map" => typesToPrune \cap options.skipPruning = {}
    /\ input.types \cap options.skipPruning \subseteq schema.types

\* An exempted type that is unused, and one that is empty, with both rules on.
C6_Witness ==
    /\ pc = "map"
    /\ ~options.skipUnusedTypesPruning
    /\ ~options.skipEmptyCompositeTypePruning
    /\ typesToPrune # {}
    /\ \E t \in options.skipPruning : RuleCondition("skipUnusedTypesPruning", pruningContext, t)
    /\ \E t \in options.skipPruning :
          RuleCondition("skipEmptyCompositeTypePruning", pruningContext, t)

\* C7: on the same graph, with one flag toggled, a type a rule of another,
\* unset flag selects is selected under both settings, and the two removal
\* sets differ only in types that the toggled flag's rules alone select.
C7_CategoryIndependence ==
    pc = "map" =>
        \A flag \in Flags :
            LET toggled == [options EXCEPT ![flag] = ~@]
                other   == selectTypes(pruningContext, toggled)
                byOther(t) == \E g \in Flags \ {flag} : RuleFires(g, pruningContext, options, t)
            IN \A t \in schema.types :
                  /\ ( /\ byOther(t)
                       /\ ~startsWithReserved(t)
                       /\ t \notin options.skipPruning )
                     => (t \in typesToPrune /\ t \in other)
                  /\ ((t \in typesToPrune) # (t \in other))
                     => (RuleCondition(flag, pruningContext, t) /\ ~byOther(t))

\* An empty union that is in use: only the empty-union flag decides on it.
C7_Witness ==
    /\ pc = "map"
    /\ \E t \in schema.types :
          /\ isUnionType(t)
          /\ t \in typesToPrune
          /\ RuleCondition("skipEmptyUnionPruning", pruningContext, t)
          /\ ~RuleCondition("skipUnusedTypesPruning", pruningContext, t)
          /\ t \notin selectTypes(pruningContext,
                                  [options EXCEPT !.skipEmptyUnionPruning = TRUE])
    /\ \E u \in schema.types :
          /\ isObjectType(u)
          /\ RuleCondition("skipEmptyCompositeTypePruning", pruningContext, u)
          /\ u \in typesToPrune

\* C8: with the default options the first pass selects every type that is not
\* reserved and not reachable from a root type or a directive argument type.
C8_UnreachableSelected ==
    (pc = "map" /\ FirstPass /\ options = DefaultOptions) =>
        \A t \in schema.types :
            (~startsWithReserved(t) /\ t \notin Reachable(schema)) => t \in typesToPrune

\* Two objects that refer to each other and that nothing else refers to.
C8_Witness ==
    /\ pc = "map" /\ FirstPass /\ options = DefaultOptions
    /\ "B" \in {f.type : f \in schema.fields["A"]}
    /\ "A" \in {f.type : f \in schema.fields["B"]}
    /\ {"A", "B"} \cap Reachable(schema) = {}
    /\ {"A", "B", "E"} \subseteq typesToPrune
    /\ "S" \in Reachable(schema)
    /\ "S" \notin typesToPrune

\* C9: pruneSchema returns only after a pass that selects nothing; an object
\* type that pass 1 keeps but whose fields all refer to types pass 1 removes
\* is selected by pass 2 and is absent from the returned graph, unless it is
\* exempted or the empty-composite rule is off.
C9_EmptiedObjectRemoved ==
    (pc = "done" /\ call = 1) =>
        /\ passes[Len(passes)].typesToPrune = {}
        /\ \A t \in input.types :
              ( /\ isObjectType(t)
                /\ input.fields[t] # {}
                /\ \A f \in input.fields[t] : f.type \in passes[1].typesToPrune
                /\ t \notin passes[1].typesToPrune
                /\ t \notin options.skipPruning
                /\ ~options.skipEmptyCompositeTypePruning )
              => ( /\ Len(passes) >= 2
                   /\ passes[2].schema.fields[t] = {}
                   /\ t \in passes[2].typesToPrune
                   /\ t \notin schema.types )

C9_Witness ==
    /\ pc = "done" /\ call = 1
    /\ Len(passes) >= 2
    /\ \E t \in input.types \ input.roots :
          /\ isObjectType(t)
          /\ input.fields[t] # {}
          /\ \A f \in input.fields[t] : f.type \in passes[1].typesToPrune
          /\ t \notin passes[1].typesToPrune
          /\ t \in passes[2].typesToPrune
          /\ t \notin options.skipPruning
          /\ ~options.skipEmptyCompositeTypePruning

\* C10: the index has an entry for a name exactly when a type of the graph
\* declares that interface, the entry holds exactly the declaring types, and
\* getImplementations answers undefined for every other name.
C10_ImplementationIndex ==
    pc = "visit" =>
        \A n \in TypeNames :
            /\ n \in DOMAIN pruningContext.implementations <=> Implementers(schema, n) # {}
            /\ n \in DOMAIN pruningContext.implementations =>
                  pruningContext.implementations[n] = Implementers(schema, n)
            /\ getImplementations(pruningContext, n).present <=> Implementers(schema, n) # {}

C10_Witness ==
    /\ pc = "visit"
    /\ DOMAIN pruningContext.implementations = {"I"}
    /\ pruningContext.implementations["I"] = {"A", "B"}

====
